---- MODULE Spec2Model ----
(***************************************************************************)
(* State-machine model of the capture/detection orchestration core of      *)
(* src/reolink/CameraController.py: the CameraController object, the       *)
(* request threads calling its control operations (start_capture,          *)
(* stop_capture, arm_system, disarm_system, set_save_interval), the        *)
(* capture worker (camera_capture) and the detection worker                *)
(* (run_detection with save_image), and of the HTTP routes of              *)
(* src/api/api.py that drive the controller.                               *)
(***************************************************************************)
EXTENDS Integers, Sequences, FiniteSets, TLC

\* ------------------------------------------------------------------ bounds

\* Concurrent request threads calling the control operations.
NumCallers == 2
\* The clock (time.time()) runs over 0..MaxTime.
MaxTime == 2
\* initial_interval is drawn from 1..MaxInterval.
MaxInterval == 2
\* At most MaxFail I/O operations fail in one run.
MaxFail == 2
\* At most MaxSpawn capture Thread objects are constructed in one run.
MaxSpawn == 2
\* Number of cameras of the wide configuration (more cameras than queue slots).
WideCams == 11

\* ------------------------------------------------------- program constants

\* queue.Queue(maxsize=10)
maxsize == 10
\* CameraController(cams=[1,2], bot=bot)
SiteCams == 2

Callers == 1..NumCallers
CapIds == 1..MaxSpawn
NoFrame == [cam |-> -1, ts |-> -1]

VARIABLES
    ncams,            \* len(self.urls)
    capture_images,   \* self.capture_images
    save_interval,    \* self.save_interval
    stop_event,       \* self.stop_event (is_set())
    state_lock,       \* self.state_lock: 0 = free, else the caller holding it
    pc,               \* position of each request thread
    detection_thread, \* self.detection_thread: "initial", "started", "finished"
    det_pc,           \* position of run_detection
    det_item,         \* the (camera_index, frame) run_detection holds
    thread,           \* self.thread: 0 = attribute not set, else the latest capture Thread
    cap,              \* the capture Thread objects and camera_capture's locals
    frame_buffer,     \* self.frame_buffer: camera index -> list of timestamps
    frame_queue,      \* self.frame_queue
    now,              \* time.time()
    fails,            \* I/O failures so far (camera read, detection call, file write, alert)
    armed,            \* self.armed
    arg,              \* the interval argument of each caller's set_save_interval call
    det,              \* run_detection's locals for the frame it holds
    req,              \* the HTTP request each request thread is serving
    scale,            \* a scale_coordinates call: its arguments and what it returned
    records,          \* detections_<camera_index>.csv: the rows of each camera's file
    client            \* test_api.py: the last /start or /stop answer the client got

vars == <<ncams, capture_images, save_interval, stop_event, state_lock, pc,
          detection_thread, det_pc, det_item, thread, cap, frame_buffer,
          frame_queue, now, fails, armed, arg, det, req, scale, client, records>>

Cams == 0..(ncams - 1)

\* A capture Thread object that was never constructed.
Unborn == [st |-> "unborn", pc |-> "loop", i |-> 0, cur |-> 0, last |-> 0,
           aligned |-> <<>>, puts |-> <<>>]

\* run_detection's locals before any frame: no boxes, the detection call not
\* failed, nothing saved, no row written (-1), no alert submitted, no rectangle
\* drawn on the frame array, no image file written.
NoDet == [boxes |-> 0, failed |-> FALSE, saved |-> "no", row |-> -1,
          alerted |-> FALSE, drawn |-> FALSE, file |-> "none"]

\* A request thread that serves no HTTP request.
NoReq == [route |-> "none", at |-> "none", kind |-> "none", n |-> 0,
          code |-> 0, text |-> "", val |-> 0]

\* No scale_coordinates call is followed.
NoScale == [shape |-> <<0, 0>>, boxes |-> <<>>, out |-> <<>>, done |-> FALSE]

\* ------------------------------------------------------------ construction

Constructed(n, t0, f0) ==
    /\ ncams = n
    /\ capture_images = TRUE
    /\ save_interval \in 1..MaxInterval
    /\ stop_event = FALSE
    /\ state_lock = 0
    /\ pc = [c \in Callers |-> "idle"]
    /\ detection_thread = "initial"
    /\ det_pc = "loop"
    /\ det_item = NoFrame
    /\ thread = 0
    /\ cap = [t \in CapIds |-> Unborn]
    /\ frame_buffer = [i \in 0..(n - 1) |-> <<>>]
    /\ frame_queue = <<>>
    /\ now = t0
    /\ fails = f0
    /\ armed = FALSE
    /\ arg = [c \in Callers |-> 0]
    /\ det = NoDet
    /\ req = [c \in Callers |-> NoReq]
    /\ records = [i \in 0..(n - 1) |-> <<>>]

InitWith(n, t0, f0) ==
    Constructed(n, t0, f0) /\ scale = NoScale /\ client = "none"

Init == InitWith(SiteCams, 0, 0)

\* The wide configuration is followed over the last tick of the clock's range.
InitWide == InitWith(WideCams, MaxTime - 1, 0)

\* The site's controller followed over the last tick of the clock's range, with
\* every I/O operation succeeding.
InitControl == InitWith(SiteCams, MaxTime - 1, MaxFail)

\* ------------------------------------------------------------------- clock

Tick ==
    /\ now < MaxTime
    /\ now' = now + 1
    /\ UNCHANGED <<ncams, scale, client, records, capture_images, save_interval, stop_event, state_lock,
                   pc, detection_thread, det_pc, det_item, thread, cap,
                   frame_buffer, frame_queue, fails,
                   armed, arg, det, req>>

\* ------------------------------------------------------- calls and returns

\* Where a request thread goes on when a controller method returns or raises:
\* back into initialize_capture (which catches the exception), back into the route
\* handler, or, for a direct call, to rest.
ReturnTo(c, raised) ==
    IF req[c].at = "hook" THEN "hook_ret"
    ELSE IF req[c].at = "handler"
           THEN (IF raised THEN "handler_exc" ELSE "handler_ret")
           ELSE "idle"

\* ------------------------------------------------ start_capture (caller c)

\* An entry that goes on to the transition whatever capturing is.
StartEnter_always(c) ==
    /\ pc[c] = "idle"
    /\ state_lock = 0
    /\ state_lock' = c
    /\ pc' = [pc EXCEPT ![c] = "start_set"]
    /\ UNCHANGED <<ncams, scale, client, records, capture_images, save_interval, stop_event,
                   detection_thread, det_pc, det_item, thread, cap,
                   frame_buffer, frame_queue, now, fails,
                   armed, arg, det, req>>

\* with self.state_lock: if self.capture_images: log "already running"; return
StartEnter(c) ==
    /\ pc[c] = "idle"
    /\ state_lock = 0
    /\ state_lock' = c
    /\ pc' = [pc EXCEPT ![c] = IF capture_images THEN "start_noop" ELSE "start_set"]
    /\ UNCHANGED <<ncams, scale, client, records, capture_images, save_interval, stop_event,
                   detection_thread, det_pc, det_item, thread, cap,
                   frame_buffer, frame_queue, now, fails,
                   armed, arg, det, req>>

\* self.capture_images = True; self.stop_event.clear()
StartSet(c) ==
    /\ pc[c] = "start_set"
    /\ capture_images' = TRUE
    /\ stop_event' = FALSE
    /\ pc' = [pc EXCEPT ![c] = "start_det"]
    /\ UNCHANGED <<ncams, scale, client, records, save_interval, state_lock, detection_thread, det_pc,
                   det_item, thread, cap, frame_buffer, frame_queue, now, fails,
                   armed, arg, det, req>>

\* self.detection_thread.start(): the one Thread object built by __init__;
\* Thread.start() raises RuntimeError when the thread was started before.
StartDetection(c) ==
    /\ pc[c] = "start_det"
    /\ IF detection_thread = "initial"
         THEN /\ detection_thread' = "started"
              /\ det_pc' = "loop"
              /\ pc' = [pc EXCEPT ![c] = "start_spawn"]
         ELSE /\ pc' = [pc EXCEPT ![c] = "start_raise"]
              /\ UNCHANGED <<detection_thread, det_pc>>
    /\ UNCHANGED <<ncams, scale, client, records, capture_images, save_interval, stop_event, state_lock,
                   det_item, thread, cap, frame_buffer, frame_queue, now, fails,
                   armed, arg, det, req>>

\* A capture Thread object that has just begun camera_capture:
\* last_capture_time = time.time().
Born == [st |-> "live", pc |-> "loop", i |-> 0, cur |-> now, last |-> now,
         aligned |-> <<>>, puts |-> <<>>]

\* self.thread = threading.Thread(target=self.camera_capture); self.thread.start()
StartSpawn(c) ==
    /\ pc[c] = "start_spawn"
    /\ thread < MaxSpawn
    /\ thread' = thread + 1
    /\ cap' = [cap EXCEPT ![thread + 1] = Born]
    /\ pc' = [pc EXCEPT ![c] = "start_done"]
    /\ UNCHANGED <<ncams, scale, client, records, capture_images, save_interval, stop_event, state_lock,
                   detection_thread, det_pc, det_item, frame_buffer,
                   frame_queue, now, fails,
                   armed, arg, det, req>>

\* Leaving the with block (by return or by the exception): the lock is released.
StartReturn(c) ==
    /\ pc[c] \in {"start_noop", "start_done", "start_raise"}
    /\ state_lock' = 0
    /\ pc' = [pc EXCEPT ![c] = ReturnTo(c, pc[c] = "start_raise")]
    /\ UNCHANGED <<ncams, scale, client, records, capture_images, save_interval, stop_event,
                   detection_thread, det_pc, det_item, thread, cap,
                   frame_buffer, frame_queue, now, fails,
                   armed, arg, det, req>>

\* start_capture without the already-running early return, spawning the capture
\* thread before the detection thread is started.
start_capture_unchecked(c) ==
    \/ /\ pc[c] = "idle"
       /\ state_lock = 0
       /\ state_lock' = c
       /\ pc' = [pc EXCEPT ![c] = "start_set"]
       /\ UNCHANGED <<ncams, scale, client, records, capture_images, save_interval, stop_event,
                      detection_thread, det_pc, det_item, thread, cap,
                      frame_buffer, frame_queue, now, fails,
                   armed, arg, det, req>>
    \/ /\ pc[c] = "start_set"
       /\ capture_images' = TRUE
       /\ stop_event' = FALSE
       /\ pc' = [pc EXCEPT ![c] = "start_spawn"]
       /\ UNCHANGED <<ncams, scale, client, records, save_interval, state_lock, detection_thread, det_pc,
                      det_item, thread, cap, frame_buffer, frame_queue, now, fails,
                   armed, arg, det, req>>
    \/ /\ pc[c] = "start_spawn"
       /\ thread < MaxSpawn
       /\ thread' = thread + 1
       /\ cap' = [cap EXCEPT ![thread + 1] = Born]
       /\ pc' = [pc EXCEPT ![c] = "start_det"]
       /\ UNCHANGED <<ncams, scale, client, records, capture_images, save_interval, stop_event, state_lock,
                      detection_thread, det_pc, det_item, frame_buffer,
                      frame_queue, now, fails,
                   armed, arg, det, req>>
    \/ /\ pc[c] = "start_det"
       /\ IF detection_thread = "initial"
            THEN /\ detection_thread' = "started"
                 /\ det_pc' = "loop"
                 /\ pc' = [pc EXCEPT ![c] = "start_done"]
            ELSE /\ pc' = [pc EXCEPT ![c] = "start_raise"]
                 /\ UNCHANGED <<detection_thread, det_pc>>
       /\ UNCHANGED <<ncams, scale, client, records, capture_images, save_interval, stop_event, state_lock,
                      det_item, thread, cap, frame_buffer, frame_queue, now, fails,
                   armed, arg, det, req>>
    \/ StartReturn(c)

start_capture(c) ==
    \/ StartEnter(c)
    \/ StartSet(c)
    \/ StartDetection(c)
    \/ StartSpawn(c)
    \/ StartReturn(c)

\* ------------------------------------------------- stop_capture (caller c)

\* An entry that goes on to the transition whatever capturing is.
StopEnter_always(c) ==
    /\ pc[c] = "idle"
    /\ state_lock = 0
    /\ state_lock' = c
    /\ pc' = [pc EXCEPT ![c] = "stop_set"]
    /\ UNCHANGED <<ncams, scale, client, records, capture_images, save_interval, stop_event,
                   detection_thread, det_pc, det_item, thread, cap,
                   frame_buffer, frame_queue, now, fails,
                   armed, arg, det, req>>

\* with self.state_lock: if not self.capture_images: log "not running"; return
StopEnter(c) ==
    /\ pc[c] = "idle"
    /\ state_lock = 0
    /\ state_lock' = c
    /\ pc' = [pc EXCEPT ![c] = IF capture_images THEN "stop_set" ELSE "stop_noop"]
    /\ UNCHANGED <<ncams, scale, client, records, capture_images, save_interval, stop_event,
                   detection_thread, det_pc, det_item, thread, cap,
                   frame_buffer, frame_queue, now, fails,
                   armed, arg, det, req>>

\* self.capture_images = False; self.stop_event.set()
StopSet(c) ==
    /\ pc[c] = "stop_set"
    /\ capture_images' = FALSE
    /\ stop_event' = TRUE
    /\ pc' = [pc EXCEPT ![c] = "stop_join_cap"]
    /\ UNCHANGED <<ncams, scale, client, records, save_interval, state_lock, detection_thread, det_pc,
                   det_item, thread, cap, frame_buffer, frame_queue, now, fails,
                   armed, arg, det, req>>

\* stop_capture going on without waiting for the capture thread to exit.
StopJoinCapture_nowait(c) ==
    /\ pc[c] = "stop_join_cap"
    /\ pc' = [pc EXCEPT ![c] = IF thread = 0 THEN "stop_raise" ELSE "stop_join_det"]
    /\ UNCHANGED <<ncams, scale, client, records, capture_images, save_interval, stop_event, state_lock,
                   detection_thread, det_pc, det_item, thread, cap,
                   frame_buffer, frame_queue, now, fails,
                   armed, arg, det, req>>

\* self.thread.join(): AttributeError when no start_capture ever set self.thread,
\* otherwise blocks until that capture thread has exited.
StopJoinCapture(c) ==
    /\ pc[c] = "stop_join_cap"
    /\ IF thread = 0 THEN TRUE ELSE cap[thread].st = "done"
    /\ pc' = [pc EXCEPT ![c] = IF thread = 0 THEN "stop_raise" ELSE "stop_join_det"]
    /\ UNCHANGED <<ncams, scale, client, records, capture_images, save_interval, stop_event, state_lock,
                   detection_thread, det_pc, det_item, thread, cap,
                   frame_buffer, frame_queue, now, fails,
                   armed, arg, det, req>>

\* self.detection_thread.join(): RuntimeError on a thread never started, otherwise
\* blocks until run_detection has exited.
StopJoinDetection(c) ==
    /\ pc[c] = "stop_join_det"
    /\ detection_thread # "started"
    /\ pc' = [pc EXCEPT ![c] = IF detection_thread = "initial" THEN "stop_raise"
                                                              ELSE "stop_done"]
    /\ UNCHANGED <<ncams, scale, client, records, capture_images, save_interval, stop_event, state_lock,
                   detection_thread, det_pc, det_item, thread, cap,
                   frame_buffer, frame_queue, now, fails,
                   armed, arg, det, req>>

StopReturn(c) ==
    /\ pc[c] \in {"stop_noop", "stop_done", "stop_raise"}
    /\ state_lock' = 0
    /\ pc' = [pc EXCEPT ![c] = ReturnTo(c, pc[c] = "stop_raise")]
    /\ UNCHANGED <<ncams, scale, client, records, capture_images, save_interval, stop_event,
                   detection_thread, det_pc, det_item, thread, cap,
                   frame_buffer, frame_queue, now, fails,
                   armed, arg, det, req>>

stop_capture(c) ==
    \/ StopEnter(c)
    \/ StopSet(c)
    \/ StopJoinCapture(c)
    \/ StopJoinDetection(c)
    \/ StopReturn(c)

\* ------------------------------------- arm_system / disarm_system (caller c)

\* An arm_system that also marks capture as running.
arm_system_capturing(c) ==
    /\ pc[c] = "idle"
    /\ armed' = TRUE
    /\ capture_images' = TRUE
    /\ pc' = [pc EXCEPT ![c] = ReturnTo(c, FALSE)]
    /\ UNCHANGED <<ncams, scale, client, records, save_interval, stop_event, state_lock,
                   detection_thread, det_pc, det_item, thread, cap,
                   frame_buffer, frame_queue, now, fails, arg, det, req>>

\* self.armed = True (no lock taken)
arm_system(c) ==
    /\ pc[c] = "idle"
    /\ armed' = TRUE
    /\ pc' = [pc EXCEPT ![c] = ReturnTo(c, FALSE)]
    /\ UNCHANGED <<ncams, scale, client, records, capture_images, save_interval, stop_event, state_lock,
                   detection_thread, det_pc, det_item, thread, cap,
                   frame_buffer, frame_queue, now, fails, arg, det, req>>

\* self.armed = False (no lock taken)
disarm_system(c) ==
    /\ pc[c] = "idle"
    /\ armed' = FALSE
    /\ pc' = [pc EXCEPT ![c] = ReturnTo(c, FALSE)]
    /\ UNCHANGED <<ncams, scale, client, records, capture_images, save_interval, stop_event, state_lock,
                   detection_thread, det_pc, det_item, thread, cap,
                   frame_buffer, frame_queue, now, fails, arg, det, req>>

\* ------------------------------------------- set_save_interval (caller c)

\* The intervals a caller passes.
IntervalArgs == (-1)..MaxInterval

\* A call that accepts every interval, going on to the locked assignment.
SetIntervalCall_novalidation(c, interval) ==
    /\ pc[c] = "idle"
    /\ arg' = [arg EXCEPT ![c] = interval]
    /\ pc' = [pc EXCEPT ![c] = "set_lock"]
    /\ UNCHANGED <<ncams, scale, client, records, capture_images, save_interval, stop_event, state_lock,
                   detection_thread, det_pc, det_item, thread, cap,
                   frame_buffer, frame_queue, now, fails, armed, det, req>>

\* if interval < 1: log the error; return  -- otherwise go on to the with block.
SetIntervalCall(c, interval) ==
    /\ pc[c] = "idle"
    /\ arg' = [arg EXCEPT ![c] = interval]
    /\ pc' = [pc EXCEPT ![c] = IF interval < 1 THEN "set_invalid" ELSE "set_lock"]
    /\ UNCHANGED <<ncams, scale, client, records, capture_images, save_interval, stop_event, state_lock,
                   detection_thread, det_pc, det_item, thread, cap,
                   frame_buffer, frame_queue, now, fails, armed, det, req>>

\* A locked section that leaves the stored interval as it was.
SetIntervalLocked_keep(c) ==
    /\ pc[c] = "set_lock"
    /\ state_lock = 0
    /\ pc' = [pc EXCEPT ![c] = "set_done"]
    /\ UNCHANGED <<ncams, scale, client, records, capture_images, save_interval, stop_event, state_lock,
                   detection_thread, det_pc, det_item, thread, cap,
                   frame_buffer, frame_queue, now, fails, armed, arg, det, req>>

\* with self.state_lock: self.save_interval = interval  -- the lock is taken once
\* it is free and released after the one assignment.
SetIntervalLocked(c) ==
    /\ pc[c] = "set_lock"
    /\ state_lock = 0
    /\ save_interval' = arg[c]
    /\ pc' = [pc EXCEPT ![c] = "set_done"]
    /\ UNCHANGED <<ncams, scale, client, records, capture_images, stop_event, state_lock,
                   detection_thread, det_pc, det_item, thread, cap,
                   frame_buffer, frame_queue, now, fails, armed, arg, det, req>>

\* What the call hands back to its caller from each of its two exits: the bare
\* return of the rejected call and the end of the function body both yield None.
set_save_interval_returns(exit) == IF exit = "set_invalid" THEN "None" ELSE "None"

\* The call returns to its caller.
SetIntervalReturn(c) ==
    /\ pc[c] \in {"set_invalid", "set_done"}
    /\ arg' = [arg EXCEPT ![c] = 0]
    /\ pc' = [pc EXCEPT ![c] = ReturnTo(c, FALSE)]
    /\ UNCHANGED <<ncams, scale, client, records, capture_images, save_interval, stop_event, state_lock,
                   detection_thread, det_pc, det_item, thread, cap,
                   frame_buffer, frame_queue, now, fails, armed, det, req>>

set_save_interval(c, interval) ==
    \/ SetIntervalCall(c, interval)
    \/ SetIntervalLocked(c)
    \/ SetIntervalReturn(c)

\* ------------------------------------------------------ alignment (pure)

Abs(x) == IF x < 0 THEN -x ELSE x

SetMin(S) == CHOOSE m \in S : \A x \in S : m <= x

\* min([frames[0][0] for frames in self.frame_buffer.values() if frames])
min_time(fb) == SetMin({fb[i][1] : i \in {j \in DOMAIN fb : fb[j] # <<>>}})

\* Selecting the latest buffered frame instead of the closest one.
closest_frame_latest(buf, mt) == Len(buf)

\* min(self.frame_buffer[index], key=lambda x: abs(x[0] - min_time)): the position
\* of the first buffered frame at the smallest distance from mt.
closest_frame(buf, mt) ==
    CHOOSE k \in 1..Len(buf) :
        /\ \A j \in 1..Len(buf) : Abs(buf[k] - mt) <= Abs(buf[j] - mt)
        /\ \A j \in 1..(k - 1) : Abs(buf[j] - mt) > Abs(buf[k] - mt)

\* The first camera index whose buffer is empty (the camera count when none is):
\* min() of an empty list raises ValueError there.
FirstEmpty(fb) ==
    LET n == Cardinality(DOMAIN fb)
        E == {i \in DOMAIN fb : fb[i] = <<>>}
    IN  IF E = {} THEN n ELSE SetMin(E)

\* An alignment that leaves out the last camera.
align_shortset(fb) ==
    LET n == Cardinality(DOMAIN fb)
    IN  [aligned |-> [p \in 1..(n - 1) |->
                        [cam |-> p - 1,
                         ts  |-> fb[p - 1][closest_frame(fb[p - 1], min_time(fb))]]],
         fb |-> [i \in DOMAIN fb |-> <<>>]]

\* The try block of align_and_process_frames up to the puts: the frames selected,
\* in camera order, and the buffers afterwards. An exception (caught and logged)
\* leaves the buffers visited so far cleared and selects nothing.
align(fb) ==
    LET n == Cardinality(DOMAIN fb)
        k == FirstEmpty(fb)
    IN  IF \A i \in DOMAIN fb : fb[i] = <<>>
          THEN [aligned |-> <<>>, fb |-> fb]
          ELSE [aligned |-> IF k = n
                              THEN [p \in 1..n |->
                                      [cam |-> p - 1,
                                       ts  |-> fb[p - 1][closest_frame(fb[p - 1], min_time(fb))]]]
                              ELSE <<>>,
                fb |-> [i \in DOMAIN fb |-> IF i < k THEN <<>> ELSE fb[i]]]

\* len(min(self.frame_buffer.values(), key=len)) > 0
EveryBufferFilled(fb) == \A i \in DOMAIN fb : Len(fb[i]) > 0

\* ------------------------------------------- camera_capture (capture thread t)

\* A loop that starts a capture cycle at every tick.
CapLoop_eager(t) ==
    /\ cap[t].st = "live"
    /\ cap[t].pc = "loop"
    /\ cap' = [cap EXCEPT ![t] =
                 IF stop_event
                   THEN [@ EXCEPT !.st = "done"]
                   ELSE [@ EXCEPT !.pc = "read", !.i = 0, !.cur = now,
                                  !.aligned = <<>>, !.puts = <<>>]]
    /\ UNCHANGED <<ncams, scale, client, records, capture_images, save_interval, stop_event, state_lock,
                   pc, detection_thread, det_pc, det_item, thread,
                   frame_buffer, frame_queue, now, fails,
                   armed, arg, det, req>>

\* while not self.stop_event.is_set(): current_time = time.time();
\* if current_time - last_capture_time >= self.save_interval: ... ; time.sleep(0.1)
CapLoop(t) ==
    /\ cap[t].st = "live"
    /\ cap[t].pc = "loop"
    /\ cap' = [cap EXCEPT ![t] =
                 IF stop_event
                   THEN [@ EXCEPT !.st = "done"]
                   ELSE IF now - @.last >= save_interval
                          THEN [@ EXCEPT !.pc = "read", !.i = 0, !.cur = now,
                                         !.aligned = <<>>, !.puts = <<>>]
                          ELSE @]
    /\ UNCHANGED <<ncams, scale, client, records, capture_images, save_interval, stop_event, state_lock,
                   pc, detection_thread, det_pc, det_item, thread,
                   frame_buffer, frame_queue, now, fails,
                   armed, arg, det, req>>

\* cap = cv2.VideoCapture(url); ret, frame = cap.read(); if ret: append
\* (time.time(), frame) to the camera's buffer, else log the failure.
CapRead(t) ==
    /\ cap[t].st = "live"
    /\ cap[t].pc = "read"
    /\ \E ret \in BOOLEAN :
         /\ ret \/ fails < MaxFail
         /\ frame_buffer' = IF ret
                              THEN [frame_buffer EXCEPT ![cap[t].i] = Append(@, now)]
                              ELSE frame_buffer
         /\ fails' = IF ret THEN fails ELSE fails + 1
    /\ cap' = [cap EXCEPT ![t].i = @ + 1,
                          ![t].pc = IF cap[t].i + 1 = ncams THEN "check" ELSE "read"]
    /\ UNCHANGED <<ncams, scale, client, records, capture_images, save_interval, stop_event, state_lock,
                   pc, detection_thread, det_pc, det_item, thread,
                   frame_queue, now,
                   armed, arg, det, req>>

\* if len(min(self.frame_buffer.values(), key=len)) > 0:
\*     self.align_and_process_frames()   (up to the loop of puts)
CapCheck(t) ==
    /\ cap[t].st = "live"
    /\ cap[t].pc = "check"
    /\ IF EveryBufferFilled(frame_buffer)
         THEN LET r == align(frame_buffer)
              IN  /\ frame_buffer' = r.fb
                  /\ cap' = [cap EXCEPT ![t].aligned = r.aligned,
                                        ![t].pc = IF r.aligned = <<>> THEN "end"
                                                                      ELSE "put"]
         ELSE /\ cap' = [cap EXCEPT ![t].pc = "end"]
              /\ UNCHANGED frame_buffer
    /\ UNCHANGED <<ncams, scale, client, records, capture_images, save_interval, stop_event, state_lock,
                   pc, detection_thread, det_pc, det_item, thread,
                   frame_queue, now, fails,
                   armed, arg, det, req>>

\* A put into a queue built without maxsize: it never waits.
CapPut_unbounded(t) ==
    /\ cap[t].st = "live"
    /\ cap[t].pc = "put"
    /\ frame_queue' = Append(frame_queue, cap[t].aligned[Len(cap[t].puts) + 1])
    /\ cap' = [cap EXCEPT
                 ![t].puts = Append(@, cap[t].aligned[Len(cap[t].puts) + 1]),
                 ![t].pc = IF Len(cap[t].puts) + 1 = Len(cap[t].aligned)
                             THEN "end" ELSE "put"]
    /\ UNCHANGED <<ncams, scale, client, records, capture_images, save_interval, stop_event, state_lock,
                   pc, detection_thread, det_pc, det_item, thread,
                   frame_buffer, now, fails,
                   armed, arg, det, req>>

\* for camera_index, frame in aligned_frames: self.frame_queue.put((camera_index,
\* frame)): Queue.put with block=True waits (pc "put_wait") while the queue is
\* full and enqueues once it has a free slot.
CapPut(t) ==
    /\ cap[t].st = "live"
    /\ \/ cap[t].pc = "put"
       \/ cap[t].pc = "put_wait" /\ Len(frame_queue) < maxsize
    /\ IF Len(frame_queue) < maxsize
         THEN /\ frame_queue' = Append(frame_queue, cap[t].aligned[Len(cap[t].puts) + 1])
              /\ cap' = [cap EXCEPT
                           ![t].puts = Append(@, cap[t].aligned[Len(cap[t].puts) + 1]),
                           ![t].pc = IF Len(cap[t].puts) + 1 = Len(cap[t].aligned)
                                       THEN "end" ELSE "put"]
         ELSE /\ cap' = [cap EXCEPT ![t].pc = "put_wait"]
              /\ UNCHANGED frame_queue
    /\ UNCHANGED <<ncams, scale, client, records, capture_images, save_interval, stop_event, state_lock,
                   pc, detection_thread, det_pc, det_item, thread,
                   frame_buffer, now, fails,
                   armed, arg, det, req>>

\* last_capture_time = current_time
CapEnd(t) ==
    /\ cap[t].st = "live"
    /\ cap[t].pc = "end"
    /\ cap' = [cap EXCEPT ![t].last = cap[t].cur, ![t].pc = "loop"]
    /\ UNCHANGED <<ncams, scale, client, records, capture_images, save_interval, stop_event, state_lock,
                   pc, detection_thread, det_pc, det_item, thread,
                   frame_buffer, frame_queue, now, fails,
                   armed, arg, det, req>>

camera_capture(t) ==
    \/ CapLoop(t)
    \/ CapRead(t)
    \/ CapCheck(t)
    \/ CapPut(t)
    \/ CapEnd(t)

\* ---------------------------------------------------------- run_detection

\* A loop check that looks at the stop signal only.
DetLoop_stoponly ==
    /\ detection_thread = "started"
    /\ det_pc = "loop"
    /\ IF ~stop_event
         THEN /\ det_pc' = "get"
              /\ UNCHANGED detection_thread
         ELSE /\ detection_thread' = "finished"
              /\ UNCHANGED det_pc
    /\ det' = NoDet
    /\ UNCHANGED <<ncams, scale, client, records, capture_images, save_interval,
                   stop_event, state_lock, pc, det_item, thread, cap, frame_buffer,
                   frame_queue, now, fails, armed, arg, req>>

\* while not self.stop_event.is_set() or not self.frame_queue.empty():
\* (the locals of the iteration before are dead here)
DetLoop ==
    /\ detection_thread = "started"
    /\ det_pc = "loop"
    /\ IF ~stop_event \/ frame_queue # <<>>
         THEN /\ det_pc' = "get"
              /\ UNCHANGED detection_thread
         ELSE /\ detection_thread' = "finished"
              /\ UNCHANGED det_pc
    /\ det' = NoDet
    /\ UNCHANGED <<ncams, scale, client, records, capture_images, save_interval, stop_event, state_lock,
                   pc, det_item, thread, cap, frame_buffer, frame_queue, now,
                   fails, armed, arg, req>>

\* A dequeue that takes the item enqueued last.
DetGet_lifo ==
    /\ detection_thread = "started"
    /\ det_pc = "get"
    /\ IF frame_queue # <<>>
         THEN /\ det_item' = frame_queue[Len(frame_queue)]
              /\ frame_queue' = SubSeq(frame_queue, 1, Len(frame_queue) - 1)
              /\ det_pc' = "detect"
         ELSE /\ det_pc' = "loop"
              /\ UNCHANGED <<det_item, frame_queue>>
    /\ UNCHANGED <<ncams, scale, client, records, capture_images, save_interval,
                   stop_event, state_lock, pc, detection_thread, thread, cap,
                   frame_buffer, now, fails, armed, arg, det, req>>

\* camera_index, frame = self.frame_queue.get(timeout=3); except queue.Empty: continue
DetGet ==
    /\ detection_thread = "started"
    /\ det_pc = "get"
    /\ IF frame_queue # <<>>
         THEN /\ det_item' = Head(frame_queue)
              /\ frame_queue' = Tail(frame_queue)
              /\ det_pc' = "detect"
         ELSE /\ det_pc' = "loop"
              /\ UNCHANGED <<det_item, frame_queue>>
    /\ UNCHANGED <<ncams, scale, client, records, capture_images, save_interval, stop_event, state_lock,
                   pc, detection_thread, thread, cap, frame_buffer, now, fails,
                   armed, arg, det, req>>

\* A process_frame that reports boxes for a failed detection call.
process_frame_onfail(out) == IF out = "empty" THEN 0 ELSE 1

\* What process_frame returns for the outcome of send_image_for_detection:
\* "fail" (transport error or non-success response, caught: []), "empty" (no
\* boxes) or "boxes" (a non-empty list, rescaled). 1 stands for a non-empty list.
process_frame(out) == IF out = "boxes" THEN 1 ELSE 0

\* frame, boxes = self.detect.process_frame(frame)
DetDetect ==
    /\ detection_thread = "started"
    /\ det_pc = "detect"
    /\ \E out \in {"fail", "empty", "boxes"} :
         /\ out = "fail" => fails < MaxFail
         /\ det' = [det EXCEPT !.boxes = process_frame(out), !.failed = (out = "fail")]
         /\ fails' = IF out = "fail" THEN fails + 1 ELSE fails
    /\ det_pc' = "persist"
    /\ UNCHANGED <<ncams, scale, client, records, capture_images, save_interval, stop_event, state_lock,
                   pc, detection_thread, det_item, thread, cap, frame_buffer,
                   frame_queue, now, armed, arg, req>>

\* cv2.imwrite(file_path, frame): the file holds the frame array as it is at the
\* call, with the rectangles drawn on it so far.
imwrite(drawn) == IF drawn THEN "annotated" ELSE "plain"

\* draw_bounding_boxes(frame, boxes): cv2.rectangle on the frame itself for each
\* box; the same array is returned.
draw_bounding_boxes(drawn, boxes) == drawn \/ boxes = 1

\* write_detection_record: open(csv_file_path, mode='a') and writerow([filename,
\* boxes]) append one row to the file of the frame's camera. A row is kept as the
\* filename, int(time.time()) taken by save_image, and the capture time of the
\* frame it was written for; its boxes column is det.row while the row's frame
\* is in process.
write_detection_record(recs, item, t) ==
    [recs EXCEPT ![item.cam] = Append(@, [frame |-> item.ts, filename |-> t])]

\* A save_image whose write error is not caught and ends run_detection.
DetPersist_uncaught ==
    /\ detection_thread = "started"
    /\ det_pc = "persist"
    /\ \E ok \in BOOLEAN :
         /\ ok \/ fails < MaxFail
         /\ IF ok
              THEN /\ det' = [det EXCEPT !.saved = "ok", !.row = det.boxes,
                                            !.file = imwrite(det.drawn)]
                   /\ records' = write_detection_record(records, det_item, now)
                   /\ det_pc' = "alert"
                   /\ UNCHANGED <<det_item, fails, detection_thread>>
              ELSE /\ det' = [det EXCEPT !.saved = "failed"]
                   /\ UNCHANGED records
                   /\ det_item' = NoFrame
                   /\ det_pc' = "loop"
                   /\ fails' = fails + 1
                   /\ detection_thread' = "finished"
    /\ UNCHANGED <<ncams, scale, client, capture_images, save_interval, stop_event, state_lock,
                   pc, thread, cap, frame_buffer, frame_queue,
                   now, armed, arg, req>>

\* A save_image that writes a record only for a frame with boxes.
DetPersist_onlyboxes ==
    /\ detection_thread = "started"
    /\ det_pc = "persist"
    /\ \E ok \in BOOLEAN :
         /\ ok \/ fails < MaxFail
         /\ IF ok
              THEN /\ det' = [det EXCEPT !.saved = "ok", !.row = det.boxes,
                                            !.file = imwrite(det.drawn)]
                   /\ records' = IF det.boxes = 1
                                   THEN write_detection_record(records, det_item, now)
                                   ELSE records
                   /\ det_pc' = "alert"
                   /\ UNCHANGED <<det_item, fails>>
              ELSE /\ det' = [det EXCEPT !.saved = "failed"]
                   /\ UNCHANGED records
                   /\ det_item' = NoFrame
                   /\ det_pc' = "loop"
                   /\ fails' = fails + 1
    /\ UNCHANGED <<ncams, scale, client, capture_images, save_interval, stop_event,
                   state_lock, pc, detection_thread, thread, cap, frame_buffer,
                   frame_queue, now, armed, arg, req>>

\* save_image up to write_detection_record: makedirs, imwrite and the appended row
\* [filename, boxes]; an exception (caught and logged by save_image) ends the
\* frame's processing before the alert decision.
DetPersist ==
    /\ detection_thread = "started"
    /\ det_pc = "persist"
    /\ \E ok \in BOOLEAN :
         /\ ok \/ fails < MaxFail
         /\ IF ok
              THEN /\ det' = [det EXCEPT !.saved = "ok", !.row = det.boxes,
                                            !.file = imwrite(det.drawn)]
                   /\ records' = write_detection_record(records, det_item, now)
                   /\ det_pc' = "alert"
                   /\ UNCHANGED <<det_item, fails>>
              ELSE /\ det' = [det EXCEPT !.saved = "failed"]
                   /\ UNCHANGED records
                   /\ det_item' = NoFrame
                   /\ det_pc' = "loop"
                   /\ fails' = fails + 1
    /\ UNCHANGED <<ncams, scale, client, capture_images, save_interval, stop_event, state_lock,
                   pc, detection_thread, thread, cap, frame_buffer, frame_queue,
                   now, armed, arg, req>>

\* A send_detection_alert whose failure ends run_detection.
DetAlert_fatal ==
    /\ detection_thread = "started"
    /\ det_pc = "alert"
    /\ \E out \in {"sent", "closed", "raised"} :
         /\ out # "sent" => (det.boxes = 1 /\ armed /\ fails < MaxFail)
         /\ det' = [det EXCEPT
                      !.alerted = (det.boxes = 1 /\ armed /\ out = "sent"),
                      !.drawn = IF det.boxes = 1 /\ armed
                                  THEN draw_bounding_boxes(@, det.boxes) ELSE @]
         /\ fails' = IF out = "sent" THEN fails ELSE fails + 1
         /\ detection_thread' = IF out = "sent" THEN "started" ELSE "finished"
    /\ det_item' = NoFrame
    /\ det_pc' = "loop"
    /\ UNCHANGED <<ncams, scale, client, records, capture_images, save_interval,
                   stop_event, state_lock, pc, thread, cap, frame_buffer,
                   frame_queue, now, armed, arg, req>>

\* if boxes and self.armed: self.send_detection_alert(...): bbox_frame =
\* self.detect.draw_bounding_boxes(frame, boxes), then the alert is handed to
\* the bot's loop ("sent") unless the loop is closed ("closed", logged) or the
\* hand-over raises ("raised", caught by save_image).
DetAlert ==
    /\ detection_thread = "started"
    /\ det_pc = "alert"
    /\ \E out \in {"sent", "closed", "raised"} :
         /\ out # "sent" => (det.boxes = 1 /\ armed /\ fails < MaxFail)
         /\ det' = [det EXCEPT
                      !.alerted = (det.boxes = 1 /\ armed /\ out = "sent"),
                      !.drawn = IF det.boxes = 1 /\ armed
                                  THEN draw_bounding_boxes(@, det.boxes) ELSE @]
         /\ fails' = IF out = "sent" THEN fails ELSE fails + 1
    /\ det_item' = NoFrame
    /\ det_pc' = "loop"
    /\ UNCHANGED <<ncams, scale, client, records, capture_images, save_interval, stop_event, state_lock,
                   pc, detection_thread, thread, cap, frame_buffer, frame_queue,
                   now, armed, arg, req>>

run_detection ==
    \/ DetLoop
    \/ DetGet
    \/ DetDetect
    \/ DetPersist
    \/ DetAlert

\* ------------------------------------------------- HTTP API (request thread c)

Routes == {"start", "stop", "status", "set_interval"}

\* request.json.get('interval'): an integer, a JSON boolean (False and True, which
\* compare as 0 and 1), nothing, or another non-integer value.
Payloads ==
    {[kind |-> "int", n |-> s] : s \in IntervalArgs}
        \cup {[kind |-> "bool", n |-> b] : b \in {0, 1}}
        \cup {[kind |-> "missing", n |-> 0], [kind |-> "text", n |-> 0]}

\* isinstance(new_interval, int): true of an int and, bool being a subclass of
\* int, of True and False.
isinstance_int(kind) == kind \in {"int", "bool"}

\* A request thread takes a request and runs initialize_capture first:
\* if not camera_controller.is_capturing(): try: camera_controller.start_capture()
\* (pc "idle" with at = "hook": about to call start_capture)
ApiHook(c) ==
    /\ pc[c] = "idle"
    /\ req[c] = NoReq
    /\ \E r \in Routes :
         \E p \in IF r = "set_interval" THEN Payloads
                                        ELSE {[kind |-> "none", n |-> 0]} :
             req' = [req EXCEPT ![c] =
                       [NoReq EXCEPT !.route = r, !.kind = p.kind, !.n = p.n,
                                     !.at = IF capture_images THEN "handler"
                                                              ELSE "hook"]]
    /\ pc' = [pc EXCEPT ![c] = IF capture_images THEN "handler" ELSE "idle"]
    /\ UNCHANGED <<ncams, scale, client, records, capture_images, save_interval, stop_event, state_lock,
                   detection_thread, det_pc, det_item, thread, cap,
                   frame_buffer, frame_queue, now, fails, armed, arg, det>>

\* start_capture came back into initialize_capture, by return or by an exception
\* that the hook catches and logs; the route handler runs next.
ApiHookReturn(c) ==
    /\ pc[c] = "hook_ret"
    /\ pc' = [pc EXCEPT ![c] = "handler"]
    /\ req' = [req EXCEPT ![c].at = "handler"]
    /\ UNCHANGED <<ncams, scale, client, records, capture_images, save_interval, stop_event, state_lock,
                   detection_thread, det_pc, det_item, thread, cap,
                   frame_buffer, frame_queue, now, fails, armed, arg, det>>

\* The route handler up to its controller call (pc "idle" with at = "handler").
\* /set_interval: if not isinstance(new_interval, int) or new_interval < 1: raise
\* ValueError.  /status: current_status = "Capturing" if is_capturing() else
\* "Not Capturing".
ApiHandler(c) ==
    /\ pc[c] = "handler"
    /\ IF req[c].route = "status"
         THEN /\ req' = [req EXCEPT ![c].text = IF capture_images THEN "Capturing"
                                                                  ELSE "Not Capturing"]
              /\ pc' = [pc EXCEPT ![c] = "status_interval"]
         ELSE /\ pc' = [pc EXCEPT ![c] =
                          IF req[c].route = "set_interval"
                               /\ ~(isinstance_int(req[c].kind) /\ req[c].n >= 1)
                            THEN "handler_exc" ELSE "idle"]
              /\ UNCHANGED req
    /\ UNCHANGED <<ncams, scale, client, records, capture_images, save_interval, stop_event, state_lock,
                   detection_thread, det_pc, det_item, thread, cap,
                   frame_buffer, frame_queue, now, fails, armed, arg, det>>

\* current_interval = camera_controller.save_interval; return jsonify(...)
ApiStatusInterval(c) ==
    /\ pc[c] = "status_interval"
    /\ req' = [req EXCEPT ![c].val = save_interval, ![c].code = 200]
    /\ pc' = [pc EXCEPT ![c] = "respond"]
    /\ UNCHANGED <<ncams, scale, client, records, capture_images, save_interval, stop_event, state_lock,
                   detection_thread, det_pc, det_item, thread, cap,
                   frame_buffer, frame_queue, now, fails, armed, arg, det>>

\* The status text of each route's success response.
StatusText(route) ==
    IF route = "start" THEN "Started capturing images."
    ELSE IF route = "stop" THEN "Stopped capturing images."
    ELSE "Save interval updated to %d seconds."

\* return jsonify({"status": ...})  /  except Exception: return jsonify({"error":
\* str(e)}), 500  (400 in /set_interval)
ApiReturn(c) ==
    /\ pc[c] \in {"handler_ret", "handler_exc"}
    /\ req' = [req EXCEPT
                 ![c].code = IF pc[c] = "handler_ret" THEN 200
                             ELSE IF req[c].route = "set_interval" THEN 400 ELSE 500,
                 ![c].text = IF pc[c] = "handler_ret" THEN StatusText(req[c].route)
                                                      ELSE "error",
                 ![c].val = IF pc[c] = "handler_ret" /\ req[c].route = "set_interval"
                              THEN req[c].n ELSE 0]
    /\ pc' = [pc EXCEPT ![c] = "respond"]
    /\ UNCHANGED <<ncams, scale, client, records, capture_images, save_interval, stop_event, state_lock,
                   detection_thread, det_pc, det_item, thread, cap,
                   frame_buffer, frame_queue, now, fails, armed, arg, det>>

\* The response is sent; the request thread is free again.
ApiDone(c) ==
    /\ pc[c] = "respond"
    /\ req' = [req EXCEPT ![c] = NoReq]
    /\ pc' = [pc EXCEPT ![c] = "idle"]
    /\ UNCHANGED <<ncams, scale, records, capture_images, save_interval, stop_event,
                   state_lock, detection_thread, det_pc, det_item, thread, cap,
                   frame_buffer, frame_queue, now, fails, armed, arg, det>>

\* The controller method request thread c is in or about to call is m: the hook
\* calls start_capture, a handler calls the method of its route.
Serving(c, m) ==
    \/ req[c].at = "hook" /\ m = "start"
    \/ req[c].at = "handler" /\ req[c].route = m

\* Request thread c serves its request up to the response.
serve(c) ==
    \/ ApiHook(c)
    \/ ApiHookReturn(c)
    \/ ApiHandler(c)
    \/ ApiStatusInterval(c)
    \/ ApiReturn(c)
    \/ Serving(c, "start") /\ start_capture(c)
    \/ Serving(c, "stop") /\ stop_capture(c)
    \/ Serving(c, "set_interval") /\ set_save_interval(c, req[c].n)

api(c) ==
    \/ serve(c)
    \/ ApiDone(c) /\ UNCHANGED client

\* test_api.py: a client that sends one request at a time; requests.post /
\* requests.get returns the response, and the client keeps the latest answer of
\* a /start or /stop ("none" while there is none, or it was an error).
ClientReceive(c) ==
    /\ ApiDone(c)
    /\ client' = IF req[c].route = "stop"
                    THEN IF req[c].code = 200 THEN "stopped" ELSE "none"
                  ELSE IF req[c].route = "start"
                    THEN IF req[c].code = 200 THEN "started" ELSE "none"
                  ELSE client

\* ---------------------------------------------- scale_coordinates (pure)

\* Python floats are IEEE 754 doubles: 53 significant bits, round to nearest, ties
\* to even. A double is kept as its 53 significand bits m (most significant
\* first, m[1] = 1) and the exponent e of m[1]; all numbers here are positive.
Precision == 53

\* input_size: Tuple[int, int] = (640, 640)
input_size == 640

RECURSIVE Pow2(_)
Pow2(n) == IF n = 0 THEN 1 ELSE 2 * Pow2(n - 1)

\* The binary digits of a natural number, most significant first.
RECURSIVE IntBits(_)
IntBits(n) == IF n = 0 THEN <<>> ELSE IntBits(n \div 2) \o <<n % 2>>

\* The natural number of a sequence of binary digits.
RECURSIVE BitsInt(_)
BitsInt(bits) ==
    IF bits = <<>> THEN 0
    ELSE 2 * BitsInt(SubSeq(bits, 1, Len(bits) - 1)) + bits[Len(bits)]

\* The digits plus one unit in the last place (not all digits are 1).
RECURSIVE IncBits(_)
IncBits(bits) ==
    IF bits = <<>> THEN <<>>
    ELSE IF bits[Len(bits)] = 0
           THEN SubSeq(bits, 1, Len(bits) - 1) \o <<1>>
           ELSE IncBits(SubSeq(bits, 1, Len(bits) - 1)) \o <<0>>

\* The double nearest to the number whose digits from exponent e down are bits,
\* followed by a non-zero rest when sticky holds.
RoundBits(bits, sticky, e) ==
    IF Len(bits) <= Precision
      THEN [m |-> bits \o [i \in 1..(Precision - Len(bits)) |-> 0], e |-> e]
      ELSE LET keep == SubSeq(bits, 1, Precision)
               g == bits[Precision + 1]
               s == sticky \/ \E i \in (Precision + 2)..Len(bits) : bits[i] = 1
               up == g = 1 /\ (s \/ keep[Precision] = 1)
           IN  IF ~up THEN [m |-> keep, e |-> e]
               ELSE IF \A i \in 1..Precision : keep[i] = 1
                      THEN [m |-> <<1>> \o [i \in 1..(Precision - 1) |-> 0],
                            e |-> e + 1]
                      ELSE [m |-> IncBits(keep), e |-> e]

\* The next k digits of r / den (r < den), appended to acc, and the remainder.
RECURSIVE DivBits(_, _, _, _)
DivBits(r, den, k, acc) ==
    IF k = 0 THEN [bits |-> acc, r |-> r]
    ELSE IF 2 * r >= den THEN DivBits(2 * r - den, den, k - 1, Append(acc, 1))
                         ELSE DivBits(2 * r, den, k - 1, Append(acc, 0))

\* The exponent of a / b: 2^e <= a / b < 2^(e+1).
Exponent(a, b) ==
    CHOOSE e \in (-13)..13 :
        IF e >= 0 THEN b * Pow2(e) <= a /\ a < b * Pow2(e + 1)
                  ELSE b <= a * Pow2(-e) /\ a * Pow2(-e) < 2 * b

\* a / b for positive ints a, b (Python true division): the nearest double.
fdiv(a, b) ==
    LET e == Exponent(a, b)
        num == IF e < 0 THEN a * Pow2(-e) ELSE a
        den == IF e < 0 THEN b ELSE b * Pow2(e)
        d == DivBits(num - den, den, Precision + 1, <<1>>)
    IN  RoundBits(d.bits, d.r # 0, e)

\* The digits of k times the number with digits bits, from digit i down.
RECURSIVE MulBits(_, _, _, _, _)
MulBits(bits, k, i, carry, acc) ==
    IF i = 0 THEN IntBits(carry) \o acc
    ELSE IF (bits[i] * k + carry) % 2 = 1
           THEN MulBits(bits, k, i - 1, (bits[i] * k + carry) \div 2, <<1>> \o acc)
           ELSE MulBits(bits, k, i - 1, (bits[i] * k + carry) \div 2, <<0>> \o acc)

\* k * d for a positive int k and a double d: the nearest double to the product.
fmul(k, d) ==
    LET p == MulBits(d.m, k, Precision, 0, <<>>)
    IN  RoundBits(p, FALSE, d.e + (Len(p) - Precision))

\* int(d): the integer part of a positive double.
Trunc(d) == IF d.e < 0 THEN 0 ELSE BitsInt(SubSeq(d.m, 1, d.e + 1))

\* int(v * scale) with scale = orig / input_size, for a coordinate v >= 0.
scale_coordinate(v, orig) ==
    IF v = 0 THEN 0 ELSE Trunc(fmul(v, fdiv(orig, input_size)))

\* orig_h, orig_w = frame.shape[:2]; scale_w, scale_h = orig_w / input_size[0],
\* orig_h / input_size[1]; each box [x1, y1, x2, y2] becomes [int(x1 * scale_w),
\* int(y1 * scale_h), int(x2 * scale_w), int(y2 * scale_h)].
scale_coordinates(shape, boxes) ==
    [b \in 1..Len(boxes) |->
        <<scale_coordinate(boxes[b][1], shape[2]),
          scale_coordinate(boxes[b][2], shape[1]),
          scale_coordinate(boxes[b][3], shape[2]),
          scale_coordinate(boxes[b][4], shape[1])>>]

\* Shapes (height, width) of the origin image.
Shapes == {<<512, 896>>, <<360, 640>>, <<1920, 2560>>}

\* Box coordinates in the 640x640 detection space.
Coords == {0, 45, 320, 640}

\* A call of scale_coordinates with one box.
InitScale ==
    /\ Constructed(SiteCams, 0, 0)
    /\ client = "none"
    /\ \E sh \in Shapes : \E x1, y1, x2, y2 \in Coords :
         scale = [NoScale EXCEPT !.shape = sh, !.boxes = <<<<x1, y1, x2, y2>>>>]

ScaleCall ==
    /\ ~scale.done
    /\ scale.boxes # <<>>
    /\ scale' = [scale EXCEPT !.out = scale_coordinates(scale.shape, scale.boxes),
                              !.done = TRUE]
    /\ UNCHANGED <<ncams, client, records, capture_images, save_interval, stop_event,
                   state_lock, pc, detection_thread, det_pc, det_item, thread, cap,
                   frame_buffer, frame_queue, now, fails, armed, arg, det, req>>

SpecScale == InitScale /\ [][ScaleCall]_vars

\* ----------------------------------------------------------- specification

Next ==
    \/ Tick
    \/ \E c \in Callers : start_capture(c)
    \/ \E c \in Callers : stop_capture(c)
    \/ \E c \in Callers : arm_system(c)
    \/ \E c \in Callers : disarm_system(c)
    \/ \E t \in CapIds : camera_capture(t)
    \/ run_detection

Spec == Init /\ [][Next]_vars

\* The same controller built with more cameras than the queue has slots.
SpecWide == InitWide /\ [][Next]_vars

\* The control operations together with set_save_interval.
NextControl ==
    \/ Next
    \/ \E c \in Callers : \E s \in IntervalArgs : set_save_interval(c, s)

SpecControl == InitControl /\ [][NextControl]_vars

\* The controller driven through the HTTP API only.
NextApi ==
    \/ Tick
    \/ \E c \in Callers : api(c)
    \/ \E t \in CapIds : camera_capture(t)
    \/ run_detection

SpecApi == InitControl /\ [][NextApi]_vars

\* The controller driven by one client that waits for each answer.
NextClient ==
    \/ Tick
    \/ serve(1)
    \/ ClientReceive(1)
    \/ \E t \in CapIds : camera_capture(t)
    \/ run_detection

SpecClient == InitControl /\ [][NextClient]_vars

\* ------------------------------------------------------------- properties

LiveCaptures == {t \in CapIds : cap[t].st = "live"}

DetectionLive == detection_thread = "started"

\* A step of capture thread t.
CapStep(t) == cap'[t] # cap[t]

\* C1: a stop_capture() that found capturing true leaves the with block (returning,
\* or raising out of a join) only in a state where no capture worker and no
\* detection worker is live, capturing is false and the stop signal is set.
C1_StopReturnsAfterWorkersExit ==
    \A c \in Callers :
        pc[c] \in {"stop_done", "stop_raise"} =>
            /\ LiveCaptures = {}
            /\ ~DetectionLive
            /\ ~capture_images
            /\ stop_event

\* A stop_capture() that joined both workers, which had been started, is returning.
C1_Witness ==
    \E c \in Callers :
        /\ pc[c] = "stop_done"
        /\ thread # 0
        /\ detection_thread = "finished"

\* C2: a start_capture() that found capturing false ends with capturing true, the
\* stop signal clear and exactly one capture worker and one detection worker
\* live, on the first such start and on every later one.
C2_StartMakesRunning ==
    \A c \in Callers :
        pc[c] \in {"start_done", "start_raise"} =>
            /\ capture_images
            /\ ~stop_event
            /\ Cardinality(LiveCaptures) = 1
            /\ DetectionLive

\* C3: in every reachable state, whatever the interleaving of the callers, at most
\* one capture worker is live (the detection worker is one Thread object, live at
\* most once by construction).
C3_AtMostOneWorkerEach == Cardinality(LiveCaptures) <= 1

\* A start_capture() arrives while both workers are live.
C3_Witness ==
    /\ Cardinality(LiveCaptures) = 1
    /\ DetectionLive
    /\ \E c \in Callers : pc[c] = "start_noop"

\* C4: when stop_capture() returns from a Running-to-Stopped transition no work is
\* in flight: the queue is empty and no worker holds a frame.
C4_NoWorkInFlight ==
    \A c \in Callers :
        pc[c] = "stop_done" =>
            /\ frame_queue = <<>>
            /\ det_item = NoFrame
            /\ \A t \in CapIds : cap[t].pc \notin {"put", "put_wait"}

\* C5: every stop_capture() call eventually returns: while a stop_capture() waits
\* in a join, a worker or the join itself can always take a step.
C5_StopEventuallyReturns ==
    \A c \in Callers :
        pc[c] \in {"stop_join_cap", "stop_join_det"} =>
            \/ ENABLED stop_capture(c)
            \/ ENABLED run_detection
            \/ \E t \in CapIds : cap[t].st = "live" /\ cap[t].pc # "put_wait"
            \/ \E t \in CapIds : ENABLED CapPut(t)

\* C6: a put at a full queue does not block: the capture worker's step leaves the
\* queue unchanged and the worker does not wait for a free slot.
C6_FullQueueDrops ==
    [][\A t \in CapIds :
          (/\ cap[t].st = "live"
           /\ cap[t].pc = "put"
           /\ Len(frame_queue) = maxsize
           /\ CapStep(t))
          => /\ frame_queue' = frame_queue
             /\ cap'[t].pc # "put_wait"]_vars

\* C7: the frame queue never holds more than K = 10 items.
C7_QueueWithinCapacity == Len(frame_queue) <= maxsize

\* The queue is full while the capture worker has a further frame to put.
C7_Witness ==
    /\ Len(frame_queue) = maxsize
    /\ \E t \in CapIds : cap[t].st = "live" /\ cap[t].pc \in {"put", "put_wait"}

\* The cameras of a sequence of queued items.
CamsOf(items) == [p \in 1..Len(items) |-> items[p].cam]

\* C8: a capture cycle after whose reads some camera's buffer is empty enqueues
\* nothing, and a cycle that ends has enqueued nothing or exactly one frame of
\* every camera.
C8_OnlyCompleteSets ==
    [][\A t \in CapIds :
          /\ (/\ cap[t].pc = "check"
              /\ CapStep(t)
              /\ ~(\A i \in Cams : frame_buffer[i] # <<>>))
             => /\ cap'[t].pc = "end"
                /\ cap'[t].puts = <<>>
                /\ frame_queue' = frame_queue
          /\ (CapStep(t) /\ cap'[t].pc = "end")
             => \/ cap'[t].puts = <<>>
                \/ CamsOf(cap'[t].puts) = [p \in 1..ncams |-> p - 1]]_vars

\* A cycle that dispatched a full set ends, after an earlier read had failed.
C8_Witness ==
    \E t \in CapIds :
        /\ cap[t].pc = "end"
        /\ Len(cap[t].puts) = ncams
        /\ fails > 0

\* C9: an alignment pass over non-empty buffers selects, for each camera, a frame
\* of that camera's buffer at the smallest absolute distance from min_time, the
\* smallest first-buffered timestamp, and leaves every buffer empty.
C9_ClosestToMinTime ==
    [][\A t \in CapIds :
          (/\ cap[t].pc = "check"
           /\ CapStep(t)
           /\ \A i \in Cams : frame_buffer[i] # <<>>)
          => LET mt == SetMin({frame_buffer[i][1] : i \in Cams})
             IN  /\ Len(cap'[t].aligned) = ncams
                 /\ \A i \in Cams :
                      /\ cap'[t].aligned[i + 1].cam = i
                      /\ \E k \in 1..Len(frame_buffer[i]) :
                           /\ frame_buffer[i][k] = cap'[t].aligned[i + 1].ts
                           /\ \A j \in 1..Len(frame_buffer[i]) :
                                Abs(frame_buffer[i][k] - mt) <= Abs(frame_buffer[i][j] - mt)
                      /\ frame_buffer'[i] = <<>>]_vars

\* An aligned set holds a frame carried over from before the cycle that emitted it.
C9_Witness ==
    \E t \in CapIds :
        /\ cap[t].pc = "put"
        /\ \E p \in 1..Len(cap[t].aligned) : cap[t].aligned[p].ts < cap[t].cur

SeqMax(q) == CHOOSE m \in {q[p] : p \in 1..Len(q)} : \A p \in 1..Len(q) : q[p] <= m

SeqMinimum(q) == CHOOSE m \in {q[p] : p \in 1..Len(q)} : \A p \in 1..Len(q) : m <= q[p]

\* Largest minus smallest timestamp of a sequence of timestamps.
Spread(q) == SeqMax(q) - SeqMinimum(q)

\* Every way of choosing one buffered frame per camera, as timestamps in camera order.
Choices(fb) ==
    LET n == Cardinality(DOMAIN fb)
        L == SeqMax([p \in 1..n |-> Len(fb[p - 1])])
    IN  {[p \in 1..n |-> fb[p - 1][ch[p]]] :
           ch \in {f \in [1..n -> 1..L] : \A p \in 1..n : f[p] <= Len(fb[p - 1])}}

\* C10: every emitted aligned set has the smallest timestamp spread among all ways
\* of choosing one buffered frame per camera.
C10_MinimalSpread ==
    [][\A t \in CapIds :
          (/\ cap[t].pc = "check"
           /\ CapStep(t)
           /\ cap'[t].pc = "put")
          => \A q \in Choices(frame_buffer) :
                Spread([p \in 1..Len(cap'[t].aligned) |-> cap'[t].aligned[p].ts]) <= Spread(q)]_vars

\* The detection worker's step that ends the processing of the frame it holds.
FrameDone == det_item # NoFrame /\ det_item' = NoFrame

\* C11: for every frame processed by save_image, an alert is submitted if and only
\* if armed is true and the frame's box list is non-empty, also when writing the
\* image or the detection record fails.
C11_AlertIffArmedAndBoxes ==
    [][FrameDone => (det'.alerted <=> (armed /\ det.boxes = 1))]_vars

\* Caller c takes a step of a set_save_interval call whose argument is below 1:
\* the call itself or its return.
InvalidSetStep(c) ==
    /\ pc'[c] # pc[c]
    /\ \/ pc'[c] \in {"set_invalid", "set_lock", "set_done"} /\ arg'[c] < 1
       \/ pc[c] \in {"set_invalid", "set_lock", "set_done"} /\ arg[c] < 1

\* C12: set_save_interval(s) with s < 1 leaves the stored interval, capturing,
\* armed, the stop signal and the workers unchanged, in every state.
C12_InvalidIntervalChangesNothing ==
    [][\A c \in Callers :
          InvalidSetStep(c) =>
              UNCHANGED <<save_interval, capture_images, armed, stop_event,
                          state_lock, detection_thread, det_pc, det_item, thread,
                          cap, frame_buffer, frame_queue>>]_vars

\* A call with an argument below 1 is being rejected while both workers are live.
C12_Witness ==
    \E c \in Callers :
        /\ pc[c] = "set_invalid"
        /\ arg[c] < 1
        /\ LiveCaptures # {}
        /\ DetectionLive

\* C13: set_save_interval(s) with s < 1 reports an InvalidArgument outcome to its
\* caller that is distinguishable from the outcome of a successful update.
C13_InvalidReported ==
    \A c \in Callers :
        pc[c] = "set_invalid" =>
            set_save_interval_returns("set_invalid") # set_save_interval_returns("set_done")

\* The locked assignment of a set_save_interval call of caller c.
SetStep(c) == pc[c] = "set_lock" /\ pc'[c] = "set_done"

\* Request thread c builds the response of a POST /set_interval whose body holds
\* an integer n >= 1.
ValidSetResponse(c) ==
    /\ pc[c] # "respond"
    /\ pc'[c] = "respond"
    /\ req[c].route = "set_interval"
    /\ req[c].kind = "int"
    /\ req[c].n >= 1

\* C14: for every integer n >= 1, POST /set_interval with interval n answers 200
\* with status 'Save interval updated to n seconds.' after storing n, and every GET
\* /status reports the stored interval, which only a successful set_interval
\* changes, whether capture is running or stopped.
C14_SetIntervalThenStatus ==
    [][/\ \A c \in Callers :
            /\ ValidSetResponse(c) =>
                  /\ pc[c] = "handler_ret"
                  /\ req'[c].code = 200
                  /\ req'[c].text = StatusText("set_interval")
                  /\ req'[c].val = req[c].n
            /\ (SetStep(c) /\ req[c].route = "set_interval") =>
                  save_interval' = req[c].n
            /\ (pc[c] = "status_interval" /\ pc'[c] = "respond") =>
                  /\ req'[c].code = 200
                  /\ req'[c].val = save_interval
       /\ save_interval' # save_interval =>
            \E c \in Callers :
                SetStep(c) /\ isinstance_int(req[c].kind) /\ req[c].n >= 1]_vars

\* A GET /status reports the interval that a POST /set_interval, answered 200 at
\* the same time, has stored, with no worker live.
C14_Witness ==
    \E c, d \in Callers :
        /\ pc[c] = "respond"
        /\ req[c].route = "set_interval"
        /\ req[c].code = 200
        /\ pc[d] = "respond"
        /\ req[d].route = "status"
        /\ req[d].val = req[c].val
        /\ LiveCaptures = {}
        /\ ~DetectionLive

\* Caller c takes a step into or out of position p.
Through(c, p) == (pc'[c] = p /\ pc[c] # p) \/ (pc[c] = p /\ pc'[c] # p)

\* C15: start_capture() invoked while capturing is true is a no-op: it takes the
\* already-running exit, spawns no worker, leaves capturing, armed, the interval,
\* the stop signal, the buffers and the queue unchanged, and returns without
\* raising.
C15_StartWhileRunningIsNoop ==
    [][\A c \in Callers :
          /\ (pc[c] = "idle" /\ pc'[c] \in {"start_noop", "start_set"} /\ capture_images)
                => pc'[c] = "start_noop"
          /\ Through(c, "start_noop")
                => UNCHANGED <<capture_images, armed, save_interval, stop_event,
                               detection_thread, det_pc, det_item, thread, cap,
                               frame_buffer, frame_queue>>
          /\ (pc[c] = "start_noop" /\ pc'[c] # pc[c])
                => /\ pc'[c] = ReturnTo(c, FALSE)
                   /\ state_lock' = 0]_vars

\* A start_capture() takes the already-running exit while the system is armed and
\* frames are queued.
C15_Witness ==
    \E c \in Callers :
        /\ pc[c] = "start_noop"
        /\ capture_images
        /\ armed
        /\ frame_queue # <<>>

\* C16: stop_capture() invoked while capturing is false is a no-op: it takes the
\* not-running exit, leaves capturing, armed, the interval, the stop signal and the
\* queue unchanged and returns without a join, however often it is repeated.
C16_StopWhileStoppedIsNoop ==
    [][\A c \in Callers :
          /\ (pc[c] = "idle" /\ pc'[c] \in {"stop_noop", "stop_set"} /\ ~capture_images)
                => pc'[c] = "stop_noop"
          /\ Through(c, "stop_noop")
                => UNCHANGED <<capture_images, armed, save_interval, stop_event,
                               detection_thread, det_pc, det_item, thread, cap,
                               frame_buffer, frame_queue>>
          /\ (pc[c] = "stop_noop" /\ pc'[c] # pc[c])
                => /\ pc'[c] = ReturnTo(c, FALSE)
                   /\ state_lock' = 0]_vars

\* A stop_capture() takes the not-running exit after an earlier stop_capture() has
\* joined both workers.
C16_Witness ==
    \E c \in Callers :
        /\ pc[c] = "stop_noop"
        /\ ~capture_images
        /\ thread # 0
        /\ detection_thread = "finished"

\* C17: every write of the shared capture state (capturing, armed, interval) is
\* performed while the writing thread holds state_lock: a step that changes armed
\* is taken by the caller holding the lock.
C17_SharedStateUnderLock ==
    [][armed' # armed => state_lock # 0 /\ pc'[state_lock] # pc[state_lock]]_vars

\* A worker is inside an I/O operation: a camera read, the dequeue, the detection
\* call, the file writes or the alert hand-over.
WorkerInIO ==
    \/ \E t \in CapIds : cap[t].st = "live" /\ cap[t].pc = "read"
    \/ DetectionLive /\ det_pc \in {"get", "detect", "persist", "alert"}

\* C18: no control operation waits on worker I/O: a set_save_interval() call is
\* never held at state_lock by a stop_capture() that is waiting in a join for a
\* worker that is inside an I/O operation.
C18_ControlNeverWaitsOnWorkerIO ==
    \A c, d \in Callers :
        ~ /\ pc[c] = "set_lock"
          /\ state_lock = d
          /\ pc[d] \in {"stop_join_cap", "stop_join_det"}
          /\ WorkerInIO

\* C19: a worker exits only after the stop signal has been raised (the detection
\* worker only with the queue empty as well), and a step in which a camera read,
\* a detection call, a file write or an alert hand-over fails leaves both workers
\* in their loops.
C19_WorkersExitOnlyOnStop ==
    [][/\ \A t \in CapIds :
            (cap[t].st = "live" /\ cap'[t].st = "done") => stop_event
       /\ (detection_thread = "started" /\ detection_thread' = "finished")
            => (stop_event /\ frame_queue = <<>>)
       /\ fails' # fails =>
            /\ \A t \in CapIds : cap'[t].st = cap[t].st
            /\ detection_thread' = detection_thread]_vars

\* Both workers are live and the stop signal is clear right after a file write of
\* the detection worker has failed, an earlier failure having happened as well.
C19_Witness ==
    /\ fails = MaxFail
    /\ det.saved = "failed"
    /\ det_pc = "loop"
    /\ DetectionLive
    /\ LiveCaptures # {}
    /\ ~stop_event

\* C20: when the detection call for a frame fails, process_frame returns an empty
\* box list, the frame goes on to save_image, the record written for it holds an
\* empty box list, and no alert is submitted for it, armed or not.
C20_FailedDetectionIsEmpty ==
    [][/\ (det_pc = "detect" /\ det_pc' # "detect" /\ det'.failed)
            => /\ det'.boxes = 0
               /\ det_pc' = "persist"
               /\ det_item' = det_item
       /\ (det.failed /\ det.saved = "no" /\ det'.saved = "ok") => det'.row = 0
       /\ (FrameDone /\ det.failed) => ~det'.alerted]_vars

\* A frame whose detection call failed has been saved with an empty box list and
\* released without an alert while the system is armed.
C20_Witness ==
    /\ det.failed
    /\ det.saved = "ok"
    /\ det.row = 0
    /\ ~det.alerted
    /\ det_item = NoFrame
    /\ armed

\* C21: for every box with non-negative integer coordinates in the 640x640 space
\* and every origin size (W, H), scale_coordinates returns exactly
\* (floor(x1*W/640), floor(y1*H/640), floor(x2*W/640), floor(y2*H/640)).
C21_ScaleIsExactFloor ==
    scale.done =>
        \A b \in 1..Len(scale.boxes) :
            scale.out[b] =
                <<(scale.boxes[b][1] * scale.shape[2]) \div input_size,
                  (scale.boxes[b][2] * scale.shape[1]) \div input_size,
                  (scale.boxes[b][3] * scale.shape[2]) \div input_size,
                  (scale.boxes[b][4] * scale.shape[1]) \div input_size>>

\* C22: the capture loop starts a capture cycle only at a tick where at least the
\* stored interval has elapsed since the previous cycle started (since the worker
\* started, for the first cycle); a tick before that does no camera read, and the
\* time a cycle started is what the next cycle is measured from.
C22_CycleOnlyAfterInterval ==
    [][\A t \in CapIds :
          /\ (cap[t].pc = "loop" /\ cap'[t].pc = "read")
                => /\ now - cap[t].last >= save_interval
                   /\ cap'[t].cur = now
          /\ (cap[t].pc = "loop" /\ CapStep(t) /\ now - cap[t].last < save_interval)
                => /\ cap'[t].pc = "loop"
                   /\ frame_buffer' = frame_buffer
          /\ (cap[t].pc = "end" /\ CapStep(t)) => cap'[t].last = cap[t].cur
          /\ frame_buffer' # frame_buffer => \E u \in CapIds : cap[u].pc \in {"read", "check"}]_vars

\* A capture cycle starts while a frame of an earlier cycle is still queued.
C22_Witness ==
    \E t \in CapIds :
        /\ cap[t].pc = "read"
        /\ cap[t].i = 0
        /\ cap[t].cur - cap[t].last >= save_interval
        /\ \E p \in 1..Len(frame_queue) : frame_queue[p].ts < cap[t].cur

\* C25: arm_system() and disarm_system() can be called whenever the caller is free,
\* capture stopped or running; a step that changes armed changes nothing else; and
\* the alert decision of save_image follows the value armed has when it is read:
\* no alert with armed false, and with armed true and a non-empty box list the
\* alert is submitted unless the hand-over fails.
C25_ArmChangesOnlyArmed ==
    /\ [](\A c \in Callers :
            pc[c] = "idle" => (ENABLED arm_system(c) /\ ENABLED disarm_system(c)))
    /\ [][/\ armed' # armed =>
               UNCHANGED <<capture_images, save_interval, stop_event, state_lock,
                           detection_thread, det_pc, det_item, thread, cap,
                           frame_buffer, frame_queue, fails, det>>
          /\ (det_pc = "alert" /\ det_pc' # "alert") =>
               /\ det'.alerted => (armed /\ det.boxes = 1)
               /\ (armed /\ det.boxes = 1) => (det'.alerted \/ fails' > fails)]_vars

\* An alert has been submitted for a frame while capture is stopped and the stop
\* is still waiting for the detection worker: armed was set by an arm_system().
C25_Witness ==
    /\ armed
    /\ det.alerted
    /\ ~capture_images
    /\ DetectionLive

\* Request thread c has the response of a request to route r ready to send.
Answered(c, r) == pc[c] = "respond" /\ req[c].route = r

\* C26: POST /stop answers 200 with status 'Stopped capturing images.' from every
\* reachable state of the controller, the state right after construction and a
\* state with capture already stopped included.
C26_StopAnswers200 ==
    \A c \in Callers :
        Answered(c, "stop") =>
            req[c].code = 200 /\ req[c].text = StatusText("stop")

\* C27: POST /start answers 200 with status 'Started capturing images.' from every
\* reachable state of the controller, capture stopped or running, after any number
\* of earlier start/stop cycles.
C27_StartAnswers200 ==
    \A c \in Callers :
        Answered(c, "start") =>
            req[c].code = 200 /\ req[c].text = StatusText("start")

\* C28: after a POST /stop that answered 200, a following GET /status, with no
\* POST /start in between, reports 'Not Capturing'; after a POST /start it reports
\* 'Capturing'.
C28_StatusFollowsStartStop ==
    \A c \in Callers :
        Answered(c, "status") =>
            /\ client = "stopped" => req[c].text = "Not Capturing"
            /\ client = "started" => req[c].text = "Capturing"

\* The half of C28 about POST /start.
C28_StatusAfterStart ==
    \A c \in Callers :
        (Answered(c, "status") /\ client = "started") => req[c].text = "Capturing"

\* A capture cycle appends at most one frame to each camera's buffer
\* (self.frame_buffer[camera_index].append, once per camera and cycle).
FramesPerCycle == 1

\* C29: the length of every camera's frame buffer is bounded by a constant that
\* does not depend on the number of elapsed capture cycles (the frames of one
\* cycle): it does not keep growing while another camera fails to deliver a frame
\* on every cycle.
C29_BufferBounded ==
    \A i \in Cams : Len(frame_buffer[i]) <= FramesPerCycle

\* C30: for every processed frame with a non-empty box list, the image file that
\* save_image persisted is the frame annotated with the drawn boxes, armed or not;
\* for an empty box list it is the unannotated frame.
C30_PersistedImageAnnotated ==
    det.saved = "ok" =>
        det.file = IF det.boxes = 1 THEN "annotated" ELSE "plain"

\* The half of C30 about an empty box list, and what the file holds otherwise.
C30_PersistedImageIsRawFrame ==
    det.saved = "ok" => det.file = "plain"

\* C23: for each camera, detection records are appended to the camera's log in
\* the order in which their frames were captured: no record of a frame captured
\* later stands before the record of a frame captured earlier by the same camera.
C23_RecordsInCaptureOrder ==
    \A i \in Cams :
        \A a, b \in 1..Len(records[i]) :
            a < b => records[i][a].frame <= records[i][b].frame

\* A camera's log holds the records of two frames captured at different times.
C23_Witness ==
    \E i \in Cams :
        /\ Len(records[i]) = 2
        /\ records[i][1].frame < records[i][2].frame

\* Log new extends log old by exactly the rows in more, nothing changed or removed.
Extends(new, old, more) == new = old \o more

\* C24: each frame the detection worker dequeued goes to save_image, and that
\* appends exactly one record to the log of the frame's camera when no persistence
\* error occurs and none when one occurs, armed or not, box list empty or not;
\* no step changes or removes an existing record.
C24_OneRecordPerFrame ==
    [][/\ (det_pc = "detect" /\ det_pc' # "detect") => det_pc' = "persist"
       /\ (det_pc = "persist" /\ det_pc' # "persist") =>
            \A i \in Cams :
                Extends(records'[i], records[i],
                        IF det'.saved = "ok" /\ i = det_item.cam
                          THEN <<[frame |-> det_item.ts, filename |-> now]>>
                          ELSE <<>>)
       /\ records' # records => (det_pc = "persist" /\ det_pc' # "persist")]_vars

\* A frame without boxes was saved with the system disarmed: its record is the
\* second of its camera's log.
C24_Witness ==
    /\ det_pc = "alert"
    /\ det.saved = "ok"
    /\ det.boxes = 0
    /\ ~armed
    /\ Len(records[det_item.cam]) = 2
    /\ records[det_item.cam][2].frame = det_item.ts

\* C31: every start_capture() that performs the Stopped-to-Running transition
\* starts worker threads that were never started before: the detection Thread
\* object it is about to start is unstarted, and the capture Thread object it
\* starts is a new one.
C31_StartsFreshThreads ==
    \A c \in Callers :
        /\ pc[c] = "start_det" => detection_thread = "initial"
        /\ pc[c] = "start_spawn" =>
              (thread < MaxSpawn => cap[thread + 1].st = "unborn")

\* C32: in every reachable state in which no start_capture() or stop_capture()
\* call is in progress, the state right after construction included,
\* is_capturing() returns true exactly when a capture worker and a detection
\* worker are live.
C32_CapturingIffWorkersLive ==
    (\A c \in Callers : pc[c] = "idle") =>
        (capture_images <=> (LiveCaptures # {} /\ DetectionLive))

\* capture_images and the stop signal are written together, under state_lock.
SignalsAgree == capture_images <=> ~stop_event

\* C33: a start_capture() or stop_capture() call that fails with an exception
\* leaves capturing and the stop signal as they were before the call (a failing
\* start found capturing false and the signal set, a failing stop found capturing
\* true and the signal clear) and releases state_lock.
C33_FailedCallChangesNothing ==
    [][\A c \in Callers :
          /\ (pc[c] = "start_raise" /\ pc'[c] # "start_raise") =>
                /\ ~capture_images'
                /\ stop_event'
                /\ state_lock' = 0
          /\ (pc[c] = "stop_raise" /\ pc'[c] # "stop_raise") =>
                /\ capture_images'
                /\ ~stop_event'
                /\ state_lock' = 0]_vars

\* The half of C33 about the lock: a failing call releases state_lock.
C33_FailedCallReleasesLock ==
    [][\A c \in Callers :
          (pc[c] \in {"start_raise", "stop_raise"} /\ pc'[c] # pc[c]) =>
              state_lock = c /\ state_lock' = 0]_vars

RecordWritten ==
    /\ det_item # NoFrame
    /\ records[det_item.cam] # <<>>
    /\ records[det_item.cam][Len(records[det_item.cam])].frame = det_item.ts

C36_FilenamesUnique ==
    \A i \in Cams :
        \A a, b \in 1..Len(records[i]) :
            a # b => records[i][a].filename # records[i][b].filename

\* The request of thread c is a POST /set_interval whose interval is missing, not
\* an integer (a JSON boolean or another value), or an integer below 1.
InvalidPayload(c) ==
    /\ req[c].route = "set_interval"
    /\ req[c].kind # "int" \/ req[c].n < 1

\* C37: POST /set_interval with an interval that is missing, not an integer, or
\* less than 1 answers 400 and leaves the stored interval unchanged.
C37_InvalidIntervalAnswers400 ==
    [][/\ \A c \in Callers :
            (InvalidPayload(c) /\ pc[c] # "respond" /\ pc'[c] = "respond") =>
                req'[c].code = 400
       /\ save_interval' # save_interval =>
            \E c \in Callers : SetStep(c) /\ ~InvalidPayload(c)]_vars

\* C37 for every invalid interval other than the JSON value true.
C37_InvalidButTrueAnswers400 ==
    [][/\ \A c \in Callers :
            (InvalidPayload(c) /\ ~(req[c].kind = "bool" /\ req[c].n = 1)
               /\ pc[c] # "respond" /\ pc'[c] = "respond") =>
                req'[c].code = 400
       /\ save_interval' # save_interval =>
            \E c \in Callers :
                SetStep(c) /\ (~InvalidPayload(c) \/ req[c].kind = "bool")]_vars

====
